---- MODULE Spec2Model ----
(***************************************************************************)
(* A model of gabrielchv/personal-blog: the blog site (blog-site/main.py)  *)
(* with its JSON post repository, its storage bucket and its admin         *)
(* handlers, and the bulk media optimiser (file-formatter/main.py).        *)
(*                                                                         *)
(* Text.  A Python str is a sequence of fragments.  Text the code looks    *)
(* into character by character (file names, extensions, type labels) is a  *)
(* sequence of one-character fragments; literals the code only             *)
(* concatenates, compares whole or splits at their own boundary (the URL   *)
(* base, the bucket name, "optimized_") are single fragments.  Every       *)
(* string that is compared is built the same way on both sides.            *)
(***************************************************************************)
EXTENDS Integers, Sequences, FiniteSets, TLC

VARIABLES
    posts_file,      \* blog_posts.json: [exists, content]; content is the JSON array
    bucket_objects,  \* names of the objects in the storage bucket
    session,         \* the browser session: the set of keys that are set to True
    response,        \* the last blog response: handler, status, post id, external calls
    converted_dir,   \* file-formatter: names of the files in converted_media/
    results,         \* file-formatter: the result list of the last /convert request
    request,         \* the inputs of the request (or call) under examination
    returned,        \* what the last direct process_media call returned or raised
    event_loop       \* the server's event loop: the requests in flight and the one running

vars == <<posts_file, bucket_objects, session, response, converted_dir, results, request,
          returned, event_loop>>

(***************************************************************************)
(* Bounds of the model.                                                    *)
(***************************************************************************)
MaxPosts == 2    \* posts in the collection
MaxId    == 3    \* largest post id a create may assign
MaxMedia == 2    \* uploaded files, kept URLs and kept types of an examined request
MaxRequests == 3 \* requests the event loop accepts

(***************************************************************************)
(* Strings.                                                                *)
(***************************************************************************)
UpperCase == <<"A","B","C","D","E","F","G","H","I","J","K","L","M",
               "N","O","P","Q","R","S","T","U","V","W","X","Y","Z">>
LowerCase == <<"a","b","c","d","e","f","g","h","i","j","k","l","m",
               "n","o","p","q","r","s","t","u","v","w","x","y","z">>

\* str.lower() on one character
lower_char(c) ==
    IF \E i \in 1..Len(UpperCase) : UpperCase[i] = c
    THEN LowerCase[CHOOSE i \in 1..Len(UpperCase) : UpperCase[i] = c]
    ELSE c

\* str.lower()
lower(s) == [i \in 1..Len(s) |-> lower_char(s[i])]

\* the positions at which sub occurs in s
occurrences(s, sub) ==
    {i \in 1..(Len(s) - Len(sub) + 1) : SubSeq(s, i, i + Len(sub) - 1) = sub}

\* `sub in s`
contains(s, sub) == occurrences(s, sub) # {}

Min(S) == CHOOSE x \in S : \A y \in S : x <= y
Max(S) == CHOOSE x \in S : \A y \in S : x >= y

\* str.split(sep), sep not empty: the list of the parts between the separators
RECURSIVE split(_, _)
split(s, sep) ==
    IF occurrences(s, sep) = {}
    THEN <<s>>
    ELSE LET i == Min(occurrences(s, sep))
         IN  <<SubSeq(s, 1, i - 1)>> \o split(SubSeq(s, i + Len(sep), Len(s)), sep)

\* str.rfind("."): the last position of a dot, 0 when there is none
rfind_dot(name) ==
    IF \E i \in 1..Len(name) : name[i] = "."
    THEN Max({i \in 1..Len(name) : name[i] = "."})
    ELSE 0

\* Path.suffix: the part of the name from its last dot on; empty when the
\* name has no dot, starts with its only dot, or ends with the dot
suffix(name) ==
    LET i == rfind_dot(name)
    IN  IF 1 < i /\ i < Len(name) THEN SubSeq(name, i, Len(name)) ELSE <<>>

\* Path.stem: the name without its suffix
stem(name) == SubSeq(name, 1, Len(name) - Len(suffix(name)))

(***************************************************************************)
(* The conversion tables of process_media.                                 *)
(***************************************************************************)
VIDEO_EXTS == { <<".","m","p","4">>, <<".","m","o","v">>, <<".","a","v","i">>,
                <<".","m","k","v">>, <<".","w","e","b","m">> }

IMAGE_EXTS == { <<".","j","p","g">>, <<".","j","p","e","g">>, <<".","p","n","g">>,
                <<".","t","i","f","f">>, <<".","b","m","p">>, <<".","w","e","b","p">> }

FMT_IMAGE_EXTS == { <<".","j","p","g">>, <<".","j","p","e","g">>, <<".","p","n","g">>,
                    <<".","t","i","f","f">>, <<".","b","m","p">> }

DOT_MP4  == <<".","m","p","4">>
DOT_WEBP == <<".","w","e","b","p">>

VIDEO_LABEL == <<"V","i","d","e","o"," ","(","M","P","4",")">>
IMAGE_LABEL == <<"I","m","a","g","e"," ","(","W","e","b","P",")">>

\* a lookup that falls back to the first row of the table
crf_value_first_row(quality) ==
    CASE quality = "high"   -> "20"
      [] quality = "medium" -> "23"
      [] quality = "low"    -> "28"
      [] OTHER              -> "20"

\* crf_map.get(quality, '23')
crf_value(quality) ==
    CASE quality = "high"   -> "20"
      [] quality = "medium" -> "23"
      [] quality = "low"    -> "28"
      [] OTHER              -> "23"

\* webp_quality_map.get(quality, '75')
webp_quality(quality) ==
    CASE quality = "high"   -> "85"
      [] quality = "medium" -> "75"
      [] quality = "low"    -> "60"
      [] OTHER              -> "75"

\* file-formatter: crf_map.get(quality, '23')
fmt_crf_value(quality) ==
    CASE quality = "high"   -> "20"
      [] quality = "medium" -> "23"
      [] quality = "low"    -> "28"
      [] OTHER              -> "23"

\* file-formatter: webp_quality_map.get(quality, '75')
fmt_webp_quality(quality) ==
    CASE quality = "high"   -> "85"
      [] quality = "medium" -> "75"
      [] quality = "low"    -> "60"
      [] OTHER              -> "75"

\* the ffmpeg argument lists; the paths are the input name and the output name
video_command(input_name, crf, output_name) ==
    <<"ffmpeg", "-i", input_name, "-vcodec", "libx264", "-crf", crf,
      "-preset", "fast", "-acodec", "aac", "-movflags", "+faststart", "-y",
      output_name>>

image_command(input_name, q, output_name) ==
    <<"ffmpeg", "-i", input_name, "-q:v", q, "-compression_level", "4", "-y",
      output_name>>

(***************************************************************************)
(* Storage names.                                                          *)
(***************************************************************************)
GCS_BUCKET_NAME == "blog-posts-gazerah"
GCS_HOST        == "storage.googleapis.com/"

get_gcs_url(object_name) == <<"https://", GCS_HOST, GCS_BUCKET_NAME, "/">> \o object_name

\* the object name of an upload: f"posts/{post_date_folder}/{optimized_filename}"
gcs_object_name(post_date_folder, optimized_filename) ==
    <<"posts/">> \o post_date_folder \o <<"/">> \o optimized_filename

(***************************************************************************)
(* process_media, blog-site.  outcome says how the external calls of this  *)
(* invocation end: "ok", "ffmpeg_error" (non-zero exit), "ffmpeg_missing"  *)
(* (no ffmpeg binary) or "upload_error" (the storage client raises).       *)
(* The result records the return value or the exception, and the external  *)
(* calls made: calls (in order), output (files written to the temporary    *)
(* directory) and uploaded (objects written to the bucket).                *)
(***************************************************************************)
Call(name, arg) == [call |-> name, arg |-> arg]

Raise(error, message, command, calls, output) ==
    [raised |-> TRUE, error |-> error, message |-> message, url |-> <<>>,
     file_type |-> <<>>, command |-> command, calls |-> calls, output |-> output,
     uploaded |-> {}]

\* lines 137-154: run ffmpeg, then upload the output and return its URL
run_and_upload(input_name, optimized_filename, file_type, command, post_date_folder, outcome) ==
    LET name == gcs_object_name(post_date_folder, optimized_filename)
    IN  CASE outcome = "ffmpeg_error" ->
               Raise("conversion_failed",
                     <<"Conversion failed for ">> \o input_name
                         \o <<". Detail: ", "stderr">>,
                     command, <<Call("ffmpeg", input_name)>>, {})
          [] outcome = "ffmpeg_missing" ->
               Raise("ffmpeg_not_found",
                     <<"FFmpeg command not found. Please install ffmpeg on your server.">>,
                     command, <<Call("ffmpeg", input_name)>>, {})
          [] outcome = "upload_error" ->
               Raise("upload_failed", <<"upload failed">>, command,
                     <<Call("ffmpeg", input_name), Call("upload", name)>>,
                     {optimized_filename})
          [] OTHER ->
               [raised |-> FALSE, error |-> "", message |-> <<>>,
                url |-> get_gcs_url(name), file_type |-> file_type,
                command |-> command,
                calls |-> <<Call("ffmpeg", input_name), Call("upload", name)>>,
                output |-> {optimized_filename}, uploaded |-> {name}]

\* ext = input_path.suffix.lower()
file_ext(input_name) == lower(suffix(input_name))

\* an error text that does not name the extension
unsupported_message_plain(ext) ==
    <<"Unsupported file type. Only common video and image types are supported.">>

\* f"Unsupported file type: {ext}. Only common video and image types are supported."
unsupported_message(ext) ==
    <<"Unsupported file type: ">> \o ext
        \o <<". Only common video and image types are supported.">>

process_media(input_name, quality, post_date_folder, outcome) ==
    LET ext == file_ext(input_name)
    IN  IF ext \in VIDEO_EXTS
        THEN LET optimized_filename == <<"optimized_">> \o stem(input_name) \o DOT_MP4
             IN  run_and_upload(input_name, optimized_filename, VIDEO_LABEL,
                     video_command(input_name, crf_value(quality), optimized_filename),
                     post_date_folder, outcome)
        ELSE IF ext \in IMAGE_EXTS
        THEN LET optimized_filename == <<"optimized_">> \o stem(input_name) \o DOT_WEBP
             IN  run_and_upload(input_name, optimized_filename, IMAGE_LABEL,
                     image_command(input_name, webp_quality(quality), optimized_filename),
                     post_date_folder, outcome)
        ELSE Raise("unsupported", unsupported_message(ext), <<>>, <<>>, {})

(***************************************************************************)
(* process_media, file-formatter: the same classification, the output is   *)
(* written to converted_media/ and nothing is uploaded.                    *)
(***************************************************************************)
FmtRaise(error, message, command, calls) ==
    [raised |-> TRUE, error |-> error, message |-> message, output_path |-> <<>>,
     file_type |-> <<>>, command |-> command, calls |-> calls, output |-> {}]

\* a run that starts the encoder a second time when it exits non-zero
fmt_run_with_retry(input_name, output_filename, file_type, command, outcome) ==
    CASE outcome = "ffmpeg_error" ->
           FmtRaise("conversion_failed",
                    <<"Conversion failed for ">> \o input_name
                        \o <<". Detail: ", "stderr">>,
                    command, <<Call("ffmpeg", input_name), Call("ffmpeg", input_name)>>)
      [] outcome = "ffmpeg_missing" ->
           FmtRaise("ffmpeg_not_found",
                    <<"FFmpeg command not found. Please install ffmpeg on your server.">>,
                    command, <<Call("ffmpeg", input_name)>>)
      [] OTHER ->
           [raised |-> FALSE, error |-> "", message |-> <<>>,
            output_path |-> output_filename, file_type |-> file_type,
            command |-> command, calls |-> <<Call("ffmpeg", input_name)>>,
            output |-> {output_filename}]

\* lines 88-104: run ffmpeg and return the output path
fmt_run(input_name, output_filename, file_type, command, outcome) ==
    CASE outcome = "ffmpeg_error" ->
           FmtRaise("conversion_failed",
                    <<"Conversion failed for ">> \o input_name
                        \o <<". Detail: ", "stderr">>,
                    command, <<Call("ffmpeg", input_name)>>)
      [] outcome = "ffmpeg_missing" ->
           FmtRaise("ffmpeg_not_found",
                    <<"FFmpeg command not found. Please install ffmpeg on your server.">>,
                    command, <<Call("ffmpeg", input_name)>>)
      [] OTHER ->
           [raised |-> FALSE, error |-> "", message |-> <<>>,
            output_path |-> output_filename, file_type |-> file_type,
            command |-> command, calls |-> <<Call("ffmpeg", input_name)>>,
            output |-> {output_filename}]

\* an extension that keeps the letter case of the file name
fmt_file_ext_as_written(input_name) == suffix(input_name)

\* ext = input_path.suffix.lower()
fmt_file_ext(input_name) == lower(suffix(input_name))

fmt_process_media(input_name, quality, outcome) ==
    LET ext == fmt_file_ext(input_name)
    IN  IF ext \in VIDEO_EXTS
        THEN LET output_filename == <<"optimized_">> \o stem(input_name) \o DOT_MP4
             IN  fmt_run(input_name, output_filename, VIDEO_LABEL,
                     video_command(input_name, fmt_crf_value(quality), output_filename),
                     outcome)
        ELSE IF ext \in FMT_IMAGE_EXTS
        THEN LET output_filename == <<"optimized_">> \o stem(input_name) \o DOT_WEBP
             IN  fmt_run(input_name, output_filename, IMAGE_LABEL,
                     image_command(input_name, fmt_webp_quality(quality), output_filename),
                     outcome)
        ELSE FmtRaise("unsupported", unsupported_message(ext), <<>>, <<>>)

(***************************************************************************)
(* The post repository: blog_posts.json holds a JSON array of objects; an  *)
(* object is the sequence of its <<key, value>> members.  load_posts       *)
(* parses every object into a BlogPost, save_posts dumps every BlogPost    *)
(* back into an object.                                                    *)
(***************************************************************************)
\* dict lookup on a parsed JSON object: the last member with the key wins
json_get(obj, key) == obj[Max({i \in 1..Len(obj) : obj[i][1] = key})][2]

\* MediaItem(**d)
MediaItem(d) == [type |-> json_get(d, "type"), url |-> json_get(d, "url")]

\* BlogPost(**d)
BlogPost(d) ==
    [id          |-> json_get(d, "id"),
     title       |-> json_get(d, "title"),
     date        |-> json_get(d, "date"),
     description |-> json_get(d, "description"),
     media       |-> [i \in 1..Len(json_get(d, "media")) |->
                         MediaItem(json_get(d, "media")[i])]]

\* a dump that writes the media of a post last to first
model_dump_media_reversed(post) ==
    << <<"id", post.id>>, <<"title", post.title>>, <<"date", post.date>>,
       <<"description", post.description>>,
       <<"media", [i \in 1..Len(post.media) |->
                     << <<"type", post.media[Len(post.media) + 1 - i].type>>,
                        <<"url", post.media[Len(post.media) + 1 - i].url>> >>]>> >>

\* post.model_dump(): the fields in declaration order, nested models dumped too
model_dump(post) ==
    << <<"id", post.id>>, <<"title", post.title>>, <<"date", post.date>>,
       <<"description", post.description>>,
       <<"media", [i \in 1..Len(post.media) |->
                     << <<"type", post.media[i].type>>, <<"url", post.media[i].url>> >>]>> >>

load_posts(file) ==
    IF file.exists
    THEN [i \in 1..Len(file.content) |-> BlogPost(file.content[i])]
    ELSE <<>>

\* a save that writes the collection last post first
save_posts_reversed(posts) ==
    [exists |-> TRUE,
     content |-> [i \in 1..Len(posts) |-> model_dump(posts[Len(posts) + 1 - i])]]

save_posts(posts) ==
    [exists |-> TRUE, content |-> [i \in 1..Len(posts) |-> model_dump(posts[i])]]

(***************************************************************************)
(* Storage deletes.  delete_error says whether blob.delete() raises for    *)
(* the objects of this request (a storage error); the exception is caught  *)
(* in delete_gcs_object.                                                   *)
(***************************************************************************)
\* one iteration of delete_post_media: the calls issued and the objects removed
delete_gcs_object(url, delete_error) ==
    LET parts == split(url, <<GCS_HOST, GCS_BUCKET_NAME, "/">>)
    IN  IF Len(parts) < 2
        THEN [calls |-> <<>>, removed |-> {}]
        ELSE [calls   |-> <<Call("delete", parts[2])>>,
              removed |-> IF delete_error THEN {} ELSE {parts[2]}]

\* a loop without the try/except: the first URL that fails ends the loop
RECURSIVE delete_post_media_until_failure(_, _)
delete_post_media_until_failure(media_urls, delete_error) ==
    IF media_urls = <<>>
    THEN [calls |-> <<>>, removed |-> {}]
    ELSE LET first == delete_gcs_object(Head(media_urls), delete_error)
             rest  == delete_post_media_until_failure(Tail(media_urls), delete_error)
         IN  IF first.removed = {}
             THEN first
             ELSE [calls   |-> first.calls \o rest.calls,
                   removed |-> first.removed \cup rest.removed]

RECURSIVE delete_post_media(_, _)
delete_post_media(media_urls, delete_error) ==
    IF media_urls = <<>>
    THEN [calls |-> <<>>, removed |-> {}]
    ELSE LET first == delete_gcs_object(Head(media_urls), delete_error)
             rest  == delete_post_media(Tail(media_urls), delete_error)
         IN  [calls   |-> first.calls \o rest.calls,
              removed |-> first.removed \cup rest.removed]

(***************************************************************************)
(* The upload loop of admin_create_post and admin_update_post.  A file is  *)
(* [filename, outcome]; every exception of an iteration is caught and the  *)
(* loop goes on with the next file.                                        *)
(***************************************************************************)
\* one iteration: save the upload, convert it, build its MediaItem
upload_one(file, quality, date_folder) ==
    IF file.filename = <<>>
    THEN [media_items |-> <<>>, calls |-> <<>>, uploaded |-> {}]
    ELSE LET r == process_media(file.filename, quality, date_folder, file.outcome)
         IN  IF r.raised
             THEN [media_items |-> <<>>, calls |-> r.calls, uploaded |-> {}]
             ELSE [media_items |->
                       <<[type |-> IF contains(lower(r.file_type), <<"v","i","d","e","o">>)
                                   THEN "video" ELSE "image",
                          url  |-> r.url]>>,
                   calls |-> r.calls, uploaded |-> r.uploaded]

\* a loop without the try/except: the first failing file ends the batch
RECURSIVE upload_loop_until_failure(_, _, _)
upload_loop_until_failure(files, quality, date_folder) ==
    IF files = <<>>
    THEN [media_items |-> <<>>, calls |-> <<>>, uploaded |-> {}]
    ELSE LET first == upload_one(Head(files), quality, date_folder)
             rest  == upload_loop_until_failure(Tail(files), quality, date_folder)
         IN  IF first.media_items = <<>>
             THEN first
             ELSE [media_items |-> first.media_items \o rest.media_items,
                   calls       |-> first.calls \o rest.calls,
                   uploaded    |-> first.uploaded \cup rest.uploaded]

RECURSIVE upload_loop(_, _, _)
upload_loop(files, quality, date_folder) ==
    IF files = <<>>
    THEN [media_items |-> <<>>, calls |-> <<>>, uploaded |-> {}]
    ELSE LET first == upload_one(Head(files), quality, date_folder)
             rest  == upload_loop(Tail(files), quality, date_folder)
         IN  [media_items |-> first.media_items \o rest.media_items,
              calls       |-> first.calls \o rest.calls,
              uploaded    |-> first.uploaded \cup rest.uploaded]

\* `if files and files[0].filename:` guards the loop
process_uploads(files, quality, date_folder) ==
    IF files # <<>> /\ files[1].filename # <<>>
    THEN upload_loop(files, quality, date_folder)
    ELSE [media_items |-> <<>>, calls |-> <<>>, uploaded |-> {}]

(***************************************************************************)
(* convert_media_bulk, file-formatter.  A result is the dict of one file;  *)
(* a key the dict does not hold is <<>>.                                   *)
(***************************************************************************)
\* one iteration of the loop: the result dict and the files written
convert_one(file, quality) ==
    LET failed(message) ==
            [result |-> [filename |-> file.filename, status |-> "failed",
                         message |-> message, output_name |-> <<>>,
                         file_type |-> <<>>, download_url |-> <<>>],
             output |-> {}]
    IN  IF file.filename = <<>>
        THEN failed(<<"Internal server error: ", "IsADirectoryError">>)
        ELSE LET r == fmt_process_media(file.filename, quality, file.outcome)
             IN  IF r.raised
                 THEN failed(r.message)
                 ELSE [result |-> [filename |-> file.filename, status |-> "success",
                                   message |-> <<"Processing failed.">>,
                                   output_name |-> r.output_path,
                                   file_type |-> r.file_type,
                                   download_url |-> <<"/download/">> \o r.output_path],
                       output |-> r.output]

RECURSIVE convert_loop(_, _)
convert_loop(files, quality) ==
    IF files = <<>>
    THEN [results |-> <<>>, output |-> {}]
    ELSE LET first == convert_one(Head(files), quality)
             rest  == convert_loop(Tail(files), quality)
         IN  [results |-> <<first.result>> \o rest.results,
              output  |-> first.output \cup rest.output]

convert_media_bulk(files, quality) ==
    /\ results' = convert_loop(files, quality).results
    /\ converted_dir' = converted_dir \cup convert_loop(files, quality).output
    /\ UNCHANGED <<posts_file, bucket_objects, session, response, returned>>

(***************************************************************************)
(* The inputs the requests are drawn from.  Titles, dates, descriptions    *)
(* and type tags are text the code never takes apart: atomic strings.      *)
(* None and the empty list are both <<>>: the handlers only test them for  *)
(* truth.                                                                  *)
(***************************************************************************)
A_PNG   == <<"a", ".", "P", "N", "G">>
A_MOV   == <<"a", ".", "m", "o", "v">>
DOC_PDF == <<"d", "o", "c", ".", "p", "d", "f">>

ADMIN_PASSWORD == "admin"
DATE_FOLDER    == <<"24-06-2025">>
FOREIGN_URL    == <<"https://", "example.com/", "x.png">>

Outcomes == {"ok", "ffmpeg_error", "ffmpeg_missing", "upload_error"}

\* all sequences over S of length at most n
SeqUpTo(S, n) == UNION {[1..k -> S] : k \in 0..n}

NoRequest  == [handler |-> "none"]
NoReturn   == [variant |-> "none"]
\* an event loop with no request in flight and no handler running
Idle == [coroutines |-> <<>>, running |-> 0]

NoResponse == [handler |-> "none", status |-> 0, location |-> "", post_id |-> 0,
               calls |-> <<>>]

Respond(handler, status, location, post_id, calls) ==
    [handler |-> handler, status |-> status, location |-> location,
     post_id |-> post_id, calls |-> calls]

(***************************************************************************)
(* Authentication.                                                         *)
(***************************************************************************)
is_authenticated == "admin_authenticated" \in session

\* a login that does not compare the password
admin_login_any_password(password) ==
    /\ session' = session \cup {"admin_authenticated"}
    /\ response' = Respond("admin_login", 303, "/admin", 0, <<>>)
    /\ UNCHANGED <<posts_file, bucket_objects, converted_dir, results, returned>>

admin_login(password) ==
    /\ IF password = ADMIN_PASSWORD
       THEN /\ session' = session \cup {"admin_authenticated"}
            /\ response' = Respond("admin_login", 303, "/admin", 0, <<>>)
       ELSE /\ session' = session
            /\ response' = Respond("admin_login", 200, "", 0, <<>>)
    /\ UNCHANGED <<posts_file, bucket_objects, converted_dir, results, returned>>

admin_logout ==
    /\ session' = {}
    /\ response' = Respond("admin_logout", 307, "/", 0, <<>>)
    /\ UNCHANGED <<posts_file, bucket_objects, converted_dir, results, returned>>

\* require_auth: the redirect every admin handler returns without a session
auth_redirect(handler, post_id) ==
    /\ response' = Respond(handler, 307, "/admin/login", post_id, <<>>)
    /\ UNCHANGED <<posts_file, bucket_objects, session, converted_dir, results,
                   returned>>

(***************************************************************************)
(* The admin handlers.  A request r carries the form fields: form (title,  *)
(* date, description), date_folder, quality, files, existing_media_urls,   *)
(* existing_media_types, and delete_error (see delete_gcs_object).         *)
(***************************************************************************)
post_ids(posts) == {posts[i].id : i \in 1..Len(posts)}

\* a create that numbers the new post by the length of the collection
next_id_by_count(posts) == Len(posts) + 1

\* next_id = max([p.id for p in posts]) + 1 if posts else 1
next_id(posts) == IF posts # <<>> THEN Max(post_ids(posts)) + 1 ELSE 1

admin_create_post(r) ==
    IF ~is_authenticated
    THEN auth_redirect("admin_create_post", 0)
    ELSE LET up       == process_uploads(r.files, r.quality, r.date_folder)
             posts    == load_posts(posts_file)
             new_post == [id |-> next_id(posts), title |-> r.form.title,
                          date |-> r.form.date, description |-> r.form.description,
                          media |-> up.media_items]
         IN  /\ Len(posts) < MaxPosts
             /\ next_id(posts) <= MaxId
             /\ posts_file' = save_posts(Append(posts, new_post))
             /\ bucket_objects' = bucket_objects \cup up.uploaded
             /\ response' = Respond("admin_create_post", 303, "/admin", 0, up.calls)
             /\ UNCHANGED <<session, converted_dir, results, returned>>

\* a search that falls back to the last post when the id is not found
find_index_or_last(posts, post_id) ==
    IF post_id \in post_ids(posts)
    THEN Min({i \in 1..Len(posts) : posts[i].id = post_id})
    ELSE Len(posts)

\* next((i for i, p in enumerate(posts) if p.id == post_id), None); 0 is None
find_index(posts, post_id) ==
    IF post_id \in post_ids(posts)
    THEN Min({i \in 1..Len(posts) : posts[i].id = post_id})
    ELSE 0

\* zip(existing_media_urls, existing_media_types) as MediaItems
kept_media(urls, types) ==
    [i \in 1..Min({Len(urls), Len(types)}) |-> [type |-> types[i], url |-> urls[i]]]

\* a membership test that finds nothing
in_no_list(x, list) == FALSE

in_list(x, list) == \E i \in 1..Len(list) : list[i] = x

admin_update_post(post_id, r) ==
    IF ~is_authenticated
    THEN auth_redirect("admin_update_post", post_id)
    ELSE LET posts      == load_posts(posts_file)
             post_index == find_index(posts, post_id)
         IN  IF post_index = 0
             THEN /\ response' = Respond("admin_update_post", 404, "", post_id, <<>>)
                  /\ UNCHANGED <<posts_file, bucket_objects, session, converted_dir,
                                 results, returned>>
             ELSE LET old_post == posts[post_index]
                      old_media_urls ==
                          [i \in 1..Len(old_post.media) |-> old_post.media[i].url]
                      NotKept(url) == ~in_list(url, r.existing_media_urls)
                      media_to_delete == SelectSeq(old_media_urls, NotKept)
                      del == delete_post_media(media_to_delete, r.delete_error)
                      up  == process_uploads(r.files, r.quality, r.date_folder)
                      media_items ==
                          kept_media(r.existing_media_urls, r.existing_media_types)
                              \o up.media_items
                      updated_post ==
                          [id |-> post_id, title |-> r.form.title, date |-> r.form.date,
                           description |-> r.form.description, media |-> media_items]
                  IN  /\ posts_file' =
                             save_posts([posts EXCEPT ![post_index] = updated_post])
                      /\ bucket_objects' =
                             (bucket_objects \ del.removed) \cup up.uploaded
                      /\ response' = Respond("admin_update_post", 303, "/admin",
                                             post_id, del.calls \o up.calls)
                      /\ UNCHANGED <<session, converted_dir, results, returned>>

admin_delete_post(post_id, delete_error) ==
    IF ~is_authenticated
    THEN auth_redirect("admin_delete_post", post_id)
    ELSE LET posts == load_posts(posts_file)
             index == find_index(posts, post_id)
         IN  IF index = 0
             THEN /\ response' = Respond("admin_delete_post", 404, "", post_id, <<>>)
                  /\ UNCHANGED <<posts_file, bucket_objects, session, converted_dir,
                                 results, returned>>
             ELSE LET post == posts[index]
                      media_urls == [i \in 1..Len(post.media) |-> post.media[i].url]
                      del == delete_post_media(media_urls, delete_error)
                      OtherPost(p) == p.id # post_id
                  IN  /\ posts_file' = save_posts(SelectSeq(posts, OtherPost))
                      /\ bucket_objects' = bucket_objects \ del.removed
                      /\ response' = Respond("admin_delete_post", 200, "", post_id,
                                             del.calls)
                      /\ UNCHANGED <<session, converted_dir, results, returned>>

(***************************************************************************)
(* Spec: the blog site under any sequence of admin requests.  A request    *)
(* uploads at most one file; an edit submits, like the edit form, the      *)
(* post's own media with their types, or drops them.                       *)
(***************************************************************************)
SiteForm == [title |-> "t1", date |-> "d1", description |-> "x1"]

SiteUploads == { [filename |-> A_PNG,   outcome |-> "ok"],
                 [filename |-> A_MOV,   outcome |-> "ok"],
                 [filename |-> DOC_PDF, outcome |-> "ok"] }

SiteRequest(files, kept, delete_error) ==
    [kind |-> "handler", form |-> SiteForm, date_folder |-> DATE_FOLDER,
     quality |-> "medium", files |-> files,
     existing_media_urls  |-> [i \in 1..Len(kept) |-> kept[i].url],
     existing_media_types |-> [i \in 1..Len(kept) |-> kept[i].type],
     delete_error |-> delete_error]

\* the media list of the post with this id
media_of(post_id) ==
    LET posts == load_posts(posts_file)
    IN  IF find_index(posts, post_id) = 0
        THEN <<>>
        ELSE posts[find_index(posts, post_id)].media

Init ==
    /\ posts_file = [exists |-> FALSE, content |-> <<>>]
    /\ bucket_objects = {}
    /\ session = {}
    /\ response = NoResponse
    /\ converted_dir = {}
    /\ results = <<>>
    /\ request = NoRequest
    /\ returned = NoReturn
    /\ event_loop = Idle

Login ==
    /\ \E password \in {ADMIN_PASSWORD, "guess"} :
           /\ admin_login(password)
           /\ request' = [handler |-> "admin_login", password |-> password]
    /\ UNCHANGED event_loop

Logout == admin_logout /\ request' = NoRequest /\ UNCHANGED event_loop

Create ==
    /\ \E files \in SeqUpTo(SiteUploads, 1) :
           admin_create_post(SiteRequest(files, <<>>, FALSE))
    /\ request' = NoRequest
    /\ UNCHANGED event_loop

Update ==
    /\ \E post_id \in 1..MaxId :
           \E kept \in {<<>>, media_of(post_id)} :
               \E files \in SeqUpTo(SiteUploads, 1 - Len(kept)) :
                   admin_update_post(post_id, SiteRequest(files, kept, FALSE))
    /\ request' = NoRequest
    /\ UNCHANGED event_loop

Delete ==
    /\ \E post_id \in 1..MaxId, delete_error \in BOOLEAN :
           admin_delete_post(post_id, delete_error)
    /\ request' = NoRequest
    /\ UNCHANGED event_loop

Next == Login \/ Logout \/ Create \/ Update \/ Delete

Spec == Init /\ [][Next]_vars

(***************************************************************************)
(* SpecRequest: one examined request against the site.  The site is set   *)
(* up by a login and by creates; then one request, drawn from the wider    *)
(* input sets below, is handled and recorded in request.                   *)
(***************************************************************************)
ExaminedForm == [title |-> "t2", date |-> "d2", description |-> "x2"]

RequestUploads ==
    {[filename |-> A_PNG, outcome |-> o] : o \in Outcomes}
        \cup { [filename |-> A_MOV,   outcome |-> "ok"],
               [filename |-> DOC_PDF, outcome |-> "ok"],
               [filename |-> <<>>,    outcome |-> "ok"] }

PNG_URL == get_gcs_url(gcs_object_name(DATE_FOLDER, <<"optimized_", "a">> \o DOT_WEBP))
MOV_URL == get_gcs_url(gcs_object_name(DATE_FOLDER, <<"optimized_", "a">> \o DOT_MP4))

RequestUrls == {PNG_URL, MOV_URL, FOREIGN_URL}

HandlerRequest(files, urls, types, delete_error) ==
    [kind |-> "handler", form |-> ExaminedForm, date_folder |-> DATE_FOLDER,
     quality |-> "medium", files |-> files, existing_media_urls |-> urls,
     existing_media_types |-> types, delete_error |-> delete_error]

\* requests that vary the upload batch
UploadRequests ==
    {HandlerRequest(files, <<>>, <<>>, FALSE) : files \in SeqUpTo(RequestUploads, MaxMedia)}

\* requests that vary the kept-media lists
KeepRequests ==
    {HandlerRequest(files, urls, types, FALSE) :
         files \in {<<>>, <<[filename |-> A_PNG, outcome |-> "ok"]>>},
         urls  \in SeqUpTo(RequestUrls, MaxMedia),
         types \in SeqUpTo({"image", "video"}, MaxMedia)}
        \cup {HandlerRequest(<<>>, urls, types, TRUE) :
                  urls  \in SeqUpTo(RequestUrls, MaxMedia),
                  types \in SeqUpTo({"image", "video"}, MaxMedia)}

HandlerRequests == UploadRequests \cup KeepRequests

SetupBatches == { <<[filename |-> A_PNG, outcome |-> "ok"],
                    [filename |-> A_MOV, outcome |-> "ok"]>>,
                  <<[filename |-> A_MOV, outcome |-> "ok"]>> }

Examined(handler, post_id, r) == [handler |-> handler, post_id |-> post_id, r |-> r]

\* no request has been examined yet
Unexamined == request = NoRequest

SetupLogin ==
    /\ Unexamined
    /\ admin_login(ADMIN_PASSWORD)
    /\ UNCHANGED <<request, event_loop>>

SetupCreate ==
    /\ Unexamined
    /\ \E files \in SetupBatches : admin_create_post(SiteRequest(files, <<>>, FALSE))
    /\ UNCHANGED <<request, event_loop>>

\* an edit that puts a URL of another site in front of the media of post 1
SetupForeign ==
    /\ Unexamined
    /\ \E post_id \in post_ids(load_posts(posts_file)) \cap {1} :
           /\ \A i \in 1..Len(media_of(post_id)) : media_of(post_id)[i].url # FOREIGN_URL
           /\ admin_update_post(post_id,
                  SiteRequest(<<>>, <<[type |-> "image", url |-> FOREIGN_URL]>>
                                        \o media_of(post_id), FALSE))
    /\ UNCHANGED <<request, event_loop>>

ExamineCreate ==
    /\ Unexamined
    /\ UNCHANGED event_loop
    /\ \E r \in HandlerRequests :
           /\ admin_create_post(r)
           /\ request' = Examined("admin_create_post", 0, r)

ExamineUpdate ==
    /\ Unexamined
    /\ UNCHANGED event_loop
    /\ \E post_id \in 1..MaxId, r \in HandlerRequests :
           /\ admin_update_post(post_id, r)
           /\ request' = Examined("admin_update_post", post_id, r)

ExamineDelete ==
    /\ Unexamined
    /\ UNCHANGED event_loop
    /\ \E post_id \in 1..MaxId, delete_error \in BOOLEAN :
           /\ admin_delete_post(post_id, delete_error)
           /\ request' = Examined("admin_delete_post", post_id,
                                  HandlerRequest(<<>>, <<>>, <<>>, delete_error))

ExamineConvert ==
    /\ Unexamined
    /\ UNCHANGED event_loop
    /\ \E r \in UploadRequests :
           /\ convert_media_bulk(r.files, r.quality)
           /\ request' = Examined("convert_media_bulk", 0, r)

NextRequest ==
    \/ SetupLogin
    \/ SetupCreate
    \/ SetupForeign
    \/ ExamineCreate
    \/ ExamineUpdate
    \/ ExamineDelete
    \/ ExamineConvert

SpecRequest == Init /\ [][NextRequest]_vars

(***************************************************************************)
(* SpecMedia: direct calls of the two process_media functions.  Init draws *)
(* the arguments: a file name made of a stem and an extension in some      *)
(* letter case, a quality, a date folder and the outcome of the external   *)
(* calls.                                                                  *)
(***************************************************************************)
upper_char(c) ==
    IF \E i \in 1..Len(LowerCase) : LowerCase[i] = c
    THEN UpperCase[CHOOSE i \in 1..Len(LowerCase) : LowerCase[i] = c]
    ELSE c

\* the extension in upper case, and with only its first letter in upper case
upper(s) == [i \in 1..Len(s) |-> upper_char(s[i])]
capitalized(s) == [i \in 1..Len(s) |-> IF i = 2 THEN upper_char(s[i]) ELSE s[i]]

OtherExts == { <<".","p","d","f">>, <<".","g","i","f">>, <<".","m","p","3">> }

ExtVariants ==
    UNION {{e, upper(e), capitalized(e)} : e \in VIDEO_EXTS \cup IMAGE_EXTS \cup OtherExts}

Stems == { <<"a">>, <<"c","l","i","p",".","v","2">> }

Qualities == {"high", "medium", "low", "ultra", ""}

MediaInputs ==
    {[stem |-> st, ext |-> e] : st \in Stems, e \in ExtVariants}
        \cup {[stem |-> <<"R","E","A","D","M","E">>, ext |-> <<>>],
              [stem |-> <<".","p","n","g">>, ext |-> <<>>]}

MediaCalls ==
    {[handler |-> "process_media", stem |-> in.stem, ext |-> in.ext,
      input_name |-> in.stem \o in.ext, quality |-> q,
      post_date_folder |-> DATE_FOLDER, outcome |-> o] :
         in \in MediaInputs, q \in Qualities, o \in Outcomes}

InitMedia ==
    /\ posts_file = [exists |-> FALSE, content |-> <<>>]
    /\ bucket_objects = {}
    /\ session = {}
    /\ response = NoResponse
    /\ converted_dir = {}
    /\ results = <<>>
    /\ request \in MediaCalls
    /\ returned = NoReturn
    /\ event_loop = Idle

CallProcessMedia ==
    LET r == process_media(request.input_name, request.quality,
                           request.post_date_folder, request.outcome)
    IN  /\ returned' = [variant |-> "blog-site", value |-> r]
        /\ bucket_objects' = bucket_objects \cup r.uploaded
        /\ UNCHANGED <<posts_file, session, response, converted_dir, results, request,
                       event_loop>>

CallFmtProcessMedia ==
    LET r == fmt_process_media(request.input_name, request.quality, request.outcome)
    IN  /\ returned' = [variant |-> "file-formatter", value |-> r]
        /\ converted_dir' = converted_dir \cup r.output
        /\ UNCHANGED <<posts_file, bucket_objects, session, response, results, request,
                       event_loop>>

NextMedia == CallProcessMedia \/ CallFmtProcessMedia

SpecMedia == InitMedia /\ [][NextMedia]_vars

(***************************************************************************)
(* SpecLoop: requests in flight at the same time.  uvicorn.run(app) serves *)
(* every request on the one event loop of one process.  A handler is a     *)
(* coroutine: the loop starts it when the request has been received and    *)
(* runs it until it awaits or returns.  The admin handlers hold no await,  *)
(* so the loop starts no other handler between a handler's load_posts()    *)
(* and its save_posts().  A coroutine is pending (received), loaded (it    *)
(* has called load_posts and holds the list it read) or done.              *)
(***************************************************************************)
LoopPostIds == {1, 2}

LoopRequests ==
    {Examined("admin_create_post", 0, SiteRequest(files, <<>>, FALSE)) :
         files \in {<<>>, <<[filename |-> A_MOV, outcome |-> "ok"]>>}}
        \cup {Examined(handler, post_id, HandlerRequest(<<>>, <<>>, <<>>, FALSE)) :
                  handler \in {"admin_update_post", "admin_delete_post"},
                  post_id \in LoopPostIds}

NoUploads == [media_items |-> <<>>, calls |-> <<>>, uploaded |-> {}]

Coroutine(req, concurrent) ==
    [handler |-> req.handler, post_id |-> req.post_id, r |-> req.r, pc |-> "pending",
     posts |-> <<>>, up |-> NoUploads, status |-> 0, concurrent |-> concurrent]

\* a handler that awaits between load_posts() and save_posts()
can_start_during_handler == TRUE

\* the loop starts a handler only when no handler is running
can_start == event_loop.running = 0

\* the coroutine has returned its response
Return(i, status) ==
    [coroutines |-> [event_loop.coroutines EXCEPT ![i].pc = "done", ![i].status = status],
     running    |-> 0]

\* the coroutine has called load_posts() and runs on
Loaded(i, posts, up) ==
    [coroutines |-> [event_loop.coroutines EXCEPT
                         ![i].pc = "loaded", ![i].posts = posts, ![i].up = up],
     running    |-> i]

\* a request is received while others may be in flight
Arrive ==
    /\ Len(event_loop.coroutines) < MaxRequests
    /\ \E req \in LoopRequests :
           event_loop' =
               [event_loop EXCEPT !.coroutines =
                    Append(@, Coroutine(req,
                        \E j \in 1..Len(event_loop.coroutines) :
                            event_loop.coroutines[j].pc # "done"))]
    /\ UNCHANGED <<posts_file, bucket_objects, session, response, converted_dir,
                   results, request, returned>>

\* the handler body up to and including load_posts()
Begin(i) ==
    LET c     == event_loop.coroutines[i]
        posts == load_posts(posts_file)
    IN  /\ can_start
        /\ c.pc = "pending"
        /\ UNCHANGED <<posts_file, session, converted_dir, results, request, returned>>
        /\ IF ~is_authenticated
           THEN /\ response' = Respond(c.handler, 307, "/admin/login", c.post_id, <<>>)
                /\ event_loop' = Return(i, 307)
                /\ UNCHANGED bucket_objects
           ELSE IF c.handler = "admin_create_post"
           THEN LET up == process_uploads(c.r.files, c.r.quality, c.r.date_folder)
                IN  /\ Len(posts) < MaxPosts
                    /\ next_id(posts) <= MaxId
                    /\ bucket_objects' = bucket_objects \cup up.uploaded
                    /\ event_loop' = Loaded(i, posts, up)
                    /\ UNCHANGED response
           ELSE IF find_index(posts, c.post_id) = 0
           THEN /\ response' = Respond(c.handler, 404, "", c.post_id, <<>>)
                /\ event_loop' = Return(i, 404)
                /\ UNCHANGED bucket_objects
           ELSE /\ event_loop' = Loaded(i, posts, NoUploads)
                /\ UNCHANGED <<response, bucket_objects>>

\* the handler body after load_posts(): it changes the list it read and saves it
Finish(i) ==
    LET c     == event_loop.coroutines[i]
        posts == c.posts
        index == find_index(posts, c.post_id)
    IN  /\ c.pc = "loaded"
        /\ UNCHANGED <<session, converted_dir, results, request, returned>>
        /\ IF c.handler = "admin_create_post"
           THEN LET new_post == [id |-> next_id(posts), title |-> c.r.form.title,
                                 date |-> c.r.form.date,
                                 description |-> c.r.form.description,
                                 media |-> c.up.media_items]
                IN  /\ posts_file' = save_posts(Append(posts, new_post))
                    /\ response' = Respond(c.handler, 303, "/admin", 0, c.up.calls)
                    /\ event_loop' = Return(i, 303)
                    /\ UNCHANGED bucket_objects
           ELSE IF c.handler = "admin_update_post"
           THEN LET old_post == posts[index]
                    old_media_urls ==
                        [k \in 1..Len(old_post.media) |-> old_post.media[k].url]
                    NotKept(url) == ~in_list(url, c.r.existing_media_urls)
                    del == delete_post_media(SelectSeq(old_media_urls, NotKept),
                                             c.r.delete_error)
                    up  == process_uploads(c.r.files, c.r.quality, c.r.date_folder)
                    updated_post ==
                        [id |-> c.post_id, title |-> c.r.form.title,
                         date |-> c.r.form.date, description |-> c.r.form.description,
                         media |-> kept_media(c.r.existing_media_urls,
                                              c.r.existing_media_types)
                                       \o up.media_items]
                IN  /\ posts_file' = save_posts([posts EXCEPT ![index] = updated_post])
                    /\ bucket_objects' = (bucket_objects \ del.removed) \cup up.uploaded
                    /\ response' = Respond(c.handler, 303, "/admin", c.post_id,
                                           del.calls \o up.calls)
                    /\ event_loop' = Return(i, 303)
           ELSE LET post == posts[index]
                    media_urls == [k \in 1..Len(post.media) |-> post.media[k].url]
                    del == delete_post_media(media_urls, c.r.delete_error)
                    OtherPost(p) == p.id # c.post_id
                IN  /\ posts_file' = save_posts(SelectSeq(posts, OtherPost))
                    /\ bucket_objects' = bucket_objects \ del.removed
                    /\ response' = Respond(c.handler, 200, "", c.post_id, del.calls)
                    /\ event_loop' = Return(i, 200)

\* the administrator logs in, once, while no handler is running
LoopLogin ==
    /\ can_start
    /\ ~is_authenticated
    /\ admin_login(ADMIN_PASSWORD)
    /\ UNCHANGED <<request, event_loop>>

Start == \E i \in 1..Len(event_loop.coroutines) : Begin(i)

Resume == \E i \in 1..Len(event_loop.coroutines) : Finish(i)

NextLoop == LoopLogin \/ Arrive \/ Start \/ Resume

SpecLoop == Init /\ [][NextLoop]_vars

(***************************************************************************)
(* The claims.                                                             *)
(***************************************************************************)
\* the saved collection, before and after a step
Posts     == load_posts(posts_file)
PostsNext == load_posts(posts_file')

\* the media URLs of a post
urls_of(post) == [i \in 1..Len(post.media) |-> post.media[i].url]

elements(list) == {list[i] : i \in 1..Len(list)}

\* a URL names a storage object when it holds the bucket's URL prefix
names_object(url) == Len(split(url, <<GCS_HOST, GCS_BUCKET_NAME, "/">>)) >= 2
object_of(url)    == split(url, <<GCS_HOST, GCS_BUCKET_NAME, "/">>)[2]

\* the storage objects the media list of a post refers to
objects_of(post) == {object_of(url) : url \in {u \in elements(urls_of(post)) : names_object(u)}}

\* the arguments of the calls of one kind in a response, in call order
IsDeleteCall(c) == c.call = "delete"
IsUploadCall(c) == c.call = "upload"
IsFfmpegCall(c) == c.call = "ffmpeg"

Served(handler, status) == response.handler = handler /\ response.status = status
ServedNext(handler, status) == response'.handler = handler /\ response'.status = status

\* C1: deleting an existing post issues storage deletes for exactly the
\* objects its media list refers to, and every object another post refers to
\* that was in storage before the delete is still there after it.
C1_DeleteStep ==
    ServedNext("admin_delete_post", 200) =>
        LET post == Posts[find_index(Posts, response'.post_id)]
        IN  /\ {c.arg : c \in elements(SelectSeq(response'.calls, IsDeleteCall))}
                   = objects_of(post)
            /\ \A i \in 1..Len(PostsNext) :
                   \A o \in objects_of(PostsNext[i]) :
                       o \in bucket_objects => o \in bucket_objects'

C1_DeleteRemovesOnlyOwnMedia == [][C1_DeleteStep]_vars

\* C3: every media URL of every saved post names an object that was
\* uploaded and is in storage now.
C3_SavedMediaIsStored ==
    \A i \in 1..Len(Posts) :
        \A url \in elements(urls_of(Posts[i])) :
            names_object(url) /\ object_of(url) \in bucket_objects

\* C4: no media URL is in the media lists of two distinct posts.
C4_MediaOwnedByOnePost ==
    \A i, j \in 1..Len(Posts) :
        i # j => elements(urls_of(Posts[i])) \cap elements(urls_of(Posts[j])) = {}

\* C5: the ids of the saved posts are pairwise distinct, and a create
\* appends a post whose id is max(existing ids) + 1, or 1 when there is none.
C5_IdsDistinct ==
    \A i, j \in 1..Len(Posts) : i # j => Posts[i].id # Posts[j].id

C5_CreateStep ==
    ServedNext("admin_create_post", 303) =>
        /\ Len(PostsNext) = Len(Posts) + 1
        /\ PostsNext[Len(PostsNext)].id =
               IF Len(Posts) = 0
               THEN 1
               ELSE 1 + CHOOSE m \in post_ids(Posts) : \A n \in post_ids(Posts) : n <= m

C5_UniqueIds == []C5_IdsDistinct /\ [][C5_CreateStep]_vars

\* a create after the post with the lowest id was deleted: max + 1 is not
\* the length of the collection plus one
C5_Witness ==
    /\ Served("admin_create_post", 303)
    /\ Len(Posts) = 2
    /\ Posts[1].id = 2
    /\ Posts[2].id = 3

\* the post an examined edit or delete addresses, as saved after the step
SavedNext == PostsNext[find_index(PostsNext, request'.post_id)]

Examines(handler, status) ==
    request'.handler = handler /\ response'.handler = handler /\ response'.status = status

\* what the uploads of the examined batches convert to
Convertible(file) == file.outcome = "ok" /\ file.filename \in {A_PNG, A_MOV}
ExpectedItem(file) ==
    IF file.filename = A_PNG
    THEN [type |-> "image", url |-> PNG_URL]
    ELSE [type |-> "video", url |-> MOV_URL]
ExpectedMedia(files) ==
    LET good == SelectSeq(files, Convertible)
    IN  [i \in 1..Len(good) |-> ExpectedItem(good[i])]

\* every file of the batch has a name
Named(files) == \A i \in 1..Len(files) : files[i].filename # <<>>

\* C2: the saved media of an edited post are the submitted kept URLs, in
\* the submitted order, followed by the newly converted media.
C2_EditStep ==
    (Examines("admin_update_post", 303) /\ Named(request'.r.files)) =>
        urls_of(SavedNext) =
            request'.r.existing_media_urls
                \o [i \in 1..Len(ExpectedMedia(request'.r.files)) |->
                       ExpectedMedia(request'.r.files)[i].url]

C2_EditKeepsSubmittedUrls == [][C2_EditStep]_vars

\* C6: a failing file does not stop the batch.  The bulk tool returns one
\* result per uploaded file, in upload order, a success for each file that
\* converts; a create saves exactly the converted files in upload order, and
\* so does an edit, after the kept media.
C6_ConvertStep ==
    request'.handler = "convert_media_bulk" =>
        LET files == request'.r.files
        IN  /\ Len(results') = Len(files)
            /\ \A i \in 1..Len(files) :
                   /\ results'[i].filename = files[i].filename
                   /\ results'[i].status = "success"
                          <=> /\ files[i].outcome \in {"ok", "upload_error"}
                              /\ files[i].filename \in {A_PNG, A_MOV}

C6_CreateStep ==
    (Examines("admin_create_post", 303) /\ Named(request'.r.files)) =>
        PostsNext[Len(PostsNext)].media = ExpectedMedia(request'.r.files)

C6_EditStep ==
    (Examines("admin_update_post", 303) /\ Named(request'.r.files)) =>
        LET new  == ExpectedMedia(request'.r.files)
            kept == Len(SavedNext.media) - Len(new)
        IN  /\ kept >= 0
            /\ kept <= Len(request'.r.existing_media_urls)
            /\ SubSeq(SavedNext.media, kept + 1, Len(SavedNext.media)) = new
            /\ \A i \in 1..kept :
                   SavedNext.media[i].url = request'.r.existing_media_urls[i]

C6_BatchSurvivesFailures == [][C6_ConvertStep /\ C6_CreateStep /\ C6_EditStep]_vars

\* an edit whose first upload fails in the encoder and whose second converts
C6_Witness ==
    /\ request.handler = "admin_update_post"
    /\ response.status = 303
    /\ request.r.files = <<[filename |-> A_PNG, outcome |-> "ffmpeg_error"],
                           [filename |-> A_MOV, outcome |-> "ok"]>>
    /\ Posts[find_index(Posts, request.post_id)].media
           = <<[type |-> "video", url |-> MOV_URL]>>

\* C10: save_posts(load_posts()) writes the document it read: the same
\* posts with the same fields, in the same order, each with its media in the
\* same order.
C10_RoundTrip ==
    /\ save_posts(load_posts(posts_file)).content = posts_file.content
    /\ load_posts(save_posts(load_posts(posts_file))) = load_posts(posts_file)

\* two saved posts, the first with two different media
C10_Witness ==
    /\ posts_file.exists
    /\ Len(Posts) = 2
    /\ Len(Posts[1].media) = 2
    /\ Posts[1].media[1] # Posts[1].media[2]
    /\ Posts[1].title # Posts[2].title

\* the direct call that was made, and what it returned or raised
Called == returned.variant # "none"
Result == returned.value
SupportedImages == IF returned.variant = "blog-site" THEN IMAGE_EXTS ELSE FMT_IMAGE_EXTS

QualityTable ==
    [high   |-> [crf |-> "20", q |-> "85"],
     medium |-> [crf |-> "23", q |-> "75"],
     low    |-> [crf |-> "28", q |-> "60"]]

ExpectedPair(quality) ==
    IF quality \in DOMAIN QualityTable THEN QualityTable[quality] ELSE QualityTable["medium"]

\* C7: in both variants the tiers high, medium and low encode video with
\* CRF 20, 23 and 28 and images with quality 85, 75 and 60; any other tier
\* value encodes with the pair of medium.
C7_QualityResolved ==
    (Called /\ Result.command # <<>>) =>
        IF Result.command[4] = "-vcodec"
        THEN /\ Result.command[6] = "-crf"
             /\ Result.command[7] = ExpectedPair(request.quality).crf
        ELSE /\ Result.command[4] = "-q:v"
             /\ Result.command[5] = ExpectedPair(request.quality).q

\* a video converted by the blog under a tier name that is not in the table
C7_Witness ==
    /\ returned.variant = "blog-site"
    /\ request.quality = "ultra"
    /\ ~Result.raised
    /\ Result.command[6] = "-crf"
    /\ Result.command[7] = "23"

OutputName(out_ext) == <<"optimized_">> \o request.stem \o out_ext

\* C8: whatever the tier, a file whose lower-cased extension is a supported
\* video extension is encoded to optimized_<stem>.mp4 and labelled
\* "Video (MP4)", and one whose lower-cased extension is a supported image
\* extension to optimized_<stem>.webp, labelled "Image (WebP)".
C8_Classified ==
    Called =>
        LET Produces(out, label) ==
                /\ Result.command # <<>>
                /\ Result.command[Len(Result.command)] = out
                /\ ~Result.raised =>
                       /\ Result.file_type = label
                       /\ Result.output = {out}
                       /\ IF returned.variant = "blog-site"
                          THEN Result.url =
                                   <<"https://", "storage.googleapis.com/",
                                     "blog-posts-gazerah", "/", "posts/">>
                                       \o request.post_date_folder \o <<"/">> \o out
                          ELSE Result.output_path = out
        IN  /\ lower(request.ext) \in VIDEO_EXTS =>
                   Produces(OutputName(DOT_MP4), VIDEO_LABEL)
            /\ lower(request.ext) \in SupportedImages =>
                   Produces(OutputName(DOT_WEBP), IMAGE_LABEL)

\* the bulk tool converts clip.v2.MOV
C8_Witness ==
    /\ returned.variant = "file-formatter"
    /\ request.input_name = <<"c","l","i","p",".","v","2",".","M","O","V">>
    /\ ~Result.raised
    /\ Result.output_path = <<"optimized_","c","l","i","p",".","v","2",".","m","p","4">>
    /\ Result.file_type = VIDEO_LABEL

\* C9: a file whose lower-cased extension is not supported is rejected with
\* an error that names the extension; the encoder is not run, no output
\* file is written and nothing is uploaded.
C9_UnsupportedRejected ==
    (Called /\ lower(request.ext) \notin VIDEO_EXTS \cup SupportedImages) =>
        /\ Result.raised
        /\ Result.error = "unsupported"
        /\ contains(Result.message, <<"Unsupported file type: ">> \o lower(request.ext))
        /\ Result.command = <<>>
        /\ Result.calls = <<>>
        /\ Result.output = {}
        /\ IF returned.variant = "blog-site"
           THEN Result.uploaded = {} /\ bucket_objects = {}
           ELSE converted_dir = {}

\* the blog rejects a.PDF
C9_Witness ==
    /\ returned.variant = "blog-site"
    /\ request.input_name = <<"a",".","P","D","F">>
    /\ Result.raised
    /\ Result.message = <<"Unsupported file type: ", ".", "p", "d", "f",
                          ". Only common video and image types are supported.">>
    /\ bucket_objects = {}

Coroutines     == event_loop.coroutines
CoroutinesNext == event_loop'.coroutines

\* the requests of this handler that returned this status
Returned(handler, status) ==
    {i \in 1..Len(Coroutines) :
         Coroutines[i].handler = handler /\ Coroutines[i].status = status}

\* no two requests are between their load_posts and their save_posts
C11_OneInFlight == Cardinality({i \in 1..Len(Coroutines) : Coroutines[i].pc = "loaded"}) <= 1

\* every post a create saved is in the collection until a delete removes it
C11_NothingLost ==
    Len(Posts) = Cardinality(Returned("admin_create_post", 303))
                     - Cardinality(Returned("admin_delete_post", 200))

\* a request saves the list it read from the file as the file still is
C11_SaveStep ==
    \A i \in 1..Len(Coroutines) :
        (Coroutines[i].pc = "loaded" /\ CoroutinesNext[i].pc = "done") =>
            Coroutines[i].posts = Posts

MutatingHandlers == {"admin_create_post", "admin_update_post", "admin_delete_post"}

\* C12: a create, edit or delete made without an authenticated session is
\* answered with a redirect to /admin/login and changes neither the saved
\* collection nor the bucket; only a login with the configured password
\* authenticates the session, and a logout ends the authentication.
C12_Step ==
    /\ (~is_authenticated /\ response'.handler \in MutatingHandlers) =>
           /\ response'.status = 307
           /\ response'.location = "/admin/login"
           /\ response'.calls = <<>>
           /\ posts_file' = posts_file
           /\ bucket_objects' = bucket_objects
    /\ (~is_authenticated /\ is_authenticated') =>
           /\ response'.handler = "admin_login"
           /\ request'.handler = "admin_login"
           /\ request'.password = ADMIN_PASSWORD
    /\ response'.handler = "admin_logout" => ~is_authenticated'

C12_OnlyAuthenticatedRequestsMutate == [][C12_Step]_vars

\* after a logout, the delete of a saved post with stored media is redirected
C12_Witness ==
    /\ response.handler = "admin_delete_post"
    /\ response.status = 307
    /\ ~is_authenticated
    /\ response.post_id \in post_ids(Posts)
    /\ objects_of(Posts[find_index(Posts, response.post_id)]) \cap bucket_objects # {}

\* the post an examined edit or delete addresses, as saved before the step
Addressed == Posts[find_index(Posts, request'.post_id)]

\* the object names of the storage deletes a response reports, in call order
DeletesOf(resp) ==
    LET calls == SelectSeq(resp.calls, IsDeleteCall)
    IN  [i \in 1..Len(calls) |-> calls[i].arg]

\* the object names of the URLs of a list that name a storage object, in order
ObjectsIn(urls) ==
    LET named == SelectSeq(urls, names_object)
    IN  [i \in 1..Len(named) |-> object_of(named[i])]

\* C13: an edit of a saved post issues a storage delete for exactly the URLs
\* of the post's saved media that are not in the submitted kept-URL list: no
\* kept URL is deleted and no URL outside the post's old media is deleted.
\* (A URL names its object by the bucket's URL prefix.)
C13_EditStep ==
    Examines("admin_update_post", 303) =>
        LET old     == elements(urls_of(Addressed))
            kept    == elements(request'.r.existing_media_urls)
            deleted == elements(DeletesOf(response'))
        IN  /\ deleted = {object_of(u) : u \in {v \in old \ kept : names_object(v)}}
            /\ \A u \in kept : names_object(u) => object_of(u) \notin deleted
            /\ deleted \subseteq objects_of(Addressed)

C13_EditDeletesDroppedMedia == [][C13_EditStep]_vars

\* an edit of a post with two media that keeps the second
C13_Witness ==
    /\ request.handler = "admin_update_post"
    /\ response.status = 303
    /\ request.r.existing_media_urls = <<MOV_URL>>
    /\ request.r.existing_media_types = <<"video">>
    /\ DeletesOf(response) = <<object_of(PNG_URL)>>
    /\ urls_of(Posts[find_index(Posts, request.post_id)]) = <<MOV_URL>>

\* C14: a URL that cannot be parsed and a storage error are swallowed.  A
\* delete of a saved post attempts every URL of the post in order, removes
\* the post and returns 200; an edit attempts every dropped URL in order,
\* saves the submitted fields and returns 303.
C14_DeleteStep ==
    (/\ request'.handler = "admin_delete_post"
     /\ is_authenticated
     /\ request'.post_id \in post_ids(Posts)) =>
        /\ response'.status = 200
        /\ DeletesOf(response') = ObjectsIn(urls_of(Addressed))
        /\ request'.post_id \notin post_ids(PostsNext)
        /\ Len(PostsNext) = Len(Posts) - 1

C14_EditStep ==
    (/\ request'.handler = "admin_update_post"
     /\ is_authenticated
     /\ request'.post_id \in post_ids(Posts)) =>
        LET NotKept(url) == url \notin elements(request'.r.existing_media_urls)
        IN  /\ response'.status = 303
            /\ DeletesOf(response') = ObjectsIn(SelectSeq(urls_of(Addressed), NotKept))
            /\ SavedNext.title = request'.r.form.title
            /\ SavedNext.date = request'.r.form.date
            /\ SavedNext.description = request'.r.form.description

C14_DeleteFailuresAreSwallowed == [][C14_DeleteStep /\ C14_EditStep]_vars

\* a delete under a storage error: both objects of the post are attempted
\* and stay in the bucket, the post is gone
C14_Witness ==
    /\ request.handler = "admin_delete_post"
    /\ request.r.delete_error
    /\ response.status = 200
    /\ DeletesOf(response) = <<object_of(PNG_URL), object_of(MOV_URL)>>
    /\ {object_of(PNG_URL), object_of(MOV_URL)} \subseteq bucket_objects
    /\ request.post_id \notin post_ids(Posts)
    /\ Len(Posts) = 1

Supported == lower(request.ext) \in VIDEO_EXTS \cup SupportedImages
EncoderCalls == SelectSeq(Result.calls, IsFfmpegCall)
UploadCalls  == SelectSeq(Result.calls, IsUploadCall)

\* C15: the encoder is started once for a supported file and never for
\* another; when it exits non-zero or is missing, the file ends with that
\* error after the one attempt, nothing is uploaded; the blog uploads once,
\* after the encoder call, and only when the encoder succeeded; the bulk tool
\* uploads nothing.
C15_SingleAttempt ==
    Called =>
        /\ Len(EncoderCalls) = (IF Supported THEN 1 ELSE 0)
        /\ (Supported /\ request.outcome \in {"ffmpeg_error", "ffmpeg_missing"}) =>
               /\ Result.raised
               /\ Result.error = (IF request.outcome = "ffmpeg_error"
                                  THEN "conversion_failed" ELSE "ffmpeg_not_found")
               /\ Result.calls = <<[call |-> "ffmpeg", arg |-> request.input_name]>>
               /\ returned.variant = "blog-site" =>
                      Result.uploaded = {} /\ bucket_objects = {}
        /\ UploadCalls # <<>> =>
               /\ returned.variant = "blog-site"
               /\ request.outcome \in {"ok", "upload_error"}
               /\ Len(Result.calls) = 2
               /\ Result.calls[1].call = "ffmpeg"
               /\ Result.calls[2].call = "upload"

\* the bulk tool's encoder exits non-zero on a.png: one attempt, an error
C15_Witness ==
    /\ returned.variant = "file-formatter"
    /\ request.input_name = <<"a", ".", "p", "n", "g">>
    /\ request.outcome = "ffmpeg_error"
    /\ Result.raised
    /\ Result.error = "conversion_failed"
    /\ Len(Result.calls) = 1
    /\ converted_dir = {}

\* C16: an authenticated edit or delete of a post id that is not in the
\* collection is answered 404, issues no storage delete, conversion or
\* upload, and leaves blog_posts.json and the bucket as they were.
C16_Step ==
    (/\ request'.handler \in {"admin_update_post", "admin_delete_post"}
     /\ is_authenticated
     /\ request'.post_id \notin post_ids(Posts)) =>
        /\ response'.handler = request'.handler
        /\ response'.status = 404
        /\ response'.calls = <<>>
        /\ posts_file' = posts_file
        /\ bucket_objects' = bucket_objects

C16_MissingPostIsNotFound == [][C16_Step]_vars

\* an edit with an upload and a kept URL, for an id no saved post has
C16_Witness ==
    /\ request.handler = "admin_update_post"
    /\ response.status = 404
    /\ is_authenticated
    /\ Len(Posts) >= 1
    /\ request.post_id \notin post_ids(Posts)
    /\ request.r.files = <<[filename |-> A_PNG, outcome |-> "ok"]>>
    /\ request.r.existing_media_urls = <<MOV_URL>>
    /\ bucket_objects # {}

\* C17: an edit replaces the record of its post, at the same position and
\* with the same id; a create appends one record at the end; a delete
\* removes the records with the given id.  Every other record and the order
\* of the other records are unchanged.
C17_EditStep ==
    Examines("admin_update_post", 303) =>
        /\ Len(PostsNext) = Len(Posts)
        /\ \A i \in 1..Len(Posts) :
               IF i = Min({k \in 1..Len(Posts) : Posts[k].id = request'.post_id})
               THEN /\ PostsNext[i].id = request'.post_id
                    /\ PostsNext[i].title = request'.r.form.title
               ELSE PostsNext[i] = Posts[i]

C17_CreateStep ==
    Examines("admin_create_post", 303) =>
        /\ Len(PostsNext) = Len(Posts) + 1
        /\ SubSeq(PostsNext, 1, Len(Posts)) = Posts
        /\ PostsNext[Len(PostsNext)].title = request'.r.form.title

C17_DeleteStep ==
    Examines("admin_delete_post", 200) =>
        LET Other(p) == p.id # request'.post_id
        IN  PostsNext = SelectSeq(Posts, Other)

C17_OtherPostsUntouched == [][C17_EditStep /\ C17_CreateStep /\ C17_DeleteStep]_vars

\* the second of two posts was edited; the first is as the setup created it
C17_Witness ==
    /\ request.handler = "admin_update_post"
    /\ response.status = 303
    /\ Len(Posts) = 2
    /\ Posts[2].id = request.post_id
    /\ Posts[2].title = "t2"
    /\ Posts[1].title = "t1"
    /\ Posts[1].media # <<>>

====
